---- MODULE Spec2Model ----
(***************************************************************************)
(* A model of the go-bgpstuff.net client (src/bgpstuff.go, with the        *)
(* response types of src/unnamed/part_001).  The state is the Client's two *)
(* reference caches plus observations of the last completed call (its      *)
(* arguments, results, and the HTTP requests it sent).  The remote service *)
(* is the environment: every request is answered by a nondeterministic     *)
(* outcome (transport error, non-200 status, undecodable body, or a        *)
(* decoded envelope).                                                      *)
(***************************************************************************)
EXTENDS Integers, Sequences, FiniteSets, TLC

(***************************************************************************)
(* Go's int (64 bit) and uint32, kept at their width as big-endian tuples  *)
(* of 16-bit limbs in two's complement: an int is <<a3, a2, a1, a0>>, a    *)
(* uint32 is <<a1, a0>>.                                                   *)
(***************************************************************************)
Limb == 2^16

I(n) == <<0, 0, n \div Limb, n % Limb>>

IsNeg(x) == x[1] >= 32768

\* Two's complement negation of a 4-limb value (mod 2^64).
Neg(x) ==
    LET c4 == (Limb - 1 - x[4]) + 1
        c3 == (Limb - 1 - x[3]) + (c4 \div Limb)
        c2 == (Limb - 1 - x[2]) + (c3 \div Limb)
        c1 == (Limb - 1 - x[1]) + (c2 \div Limb)
    IN  <<c1 % Limb, c2 % Limb, c3 % Limb, c4 % Limb>>

MaxInt64 == <<32767, 65535, 65535, 65535>>
MinInt64 == <<32768, 0, 0, 0>>

\* The conversion uint32(asn): the low 32 bits.
Uint32(x) == <<x[3], x[4]>>

\* The conversion int(v.ASN) of a uint32.
IntOfUint32(u) == <<0, 0, u[1], u[2]>>

U32(n) == <<n \div Limb, n % Limb>>

U32Leq(a, b) == a[1] < b[1] \/ (a[1] = b[1] /\ a[2] <= b[2])

\* x = 10 * q + r on unsigned 4-limb values: <<q, r>>.
DivMod10(x) ==
    LET d1 == x[1]
        d2 == (d1 % 10) * Limb + x[2]
        d3 == (d2 % 10) * Limb + x[3]
        d4 == (d3 % 10) * Limb + x[4]
    IN  <<(<<d1 \div 10, d2 \div 10, d3 \div 10, d4 \div 10>>), d4 % 10>>

DigitChar == <<"0", "1", "2", "3", "4", "5", "6", "7", "8", "9">>

RECURSIVE Digits(_)
Digits(x) ==
    LET qr == DivMod10(x)
    IN  IF qr[1] = <<0, 0, 0, 0>>
        THEN <<DigitChar[qr[2] + 1]>>
        ELSE Append(Digits(qr[1]), DigitChar[qr[2] + 1])

\* fmt.Sprint of an int: its decimal digits, as a sequence of characters.
Sprint(x) == IF IsNeg(x) THEN <<"-">> \o Digits(Neg(x)) ELSE Digits(x)

CharVal(c) ==
    CASE c = "0" -> 0 [] c = "1" -> 1 [] c = "2" -> 2 [] c = "3" -> 3
      [] c = "4" -> 4 [] c = "5" -> 5 [] c = "6" -> 6 [] c = "7" -> 7
      [] c = "8" -> 8 [] c = "9" -> 9 [] OTHER -> -1

\* 10 * x + d on unsigned 4-limb values: <<value mod 2^64, carried out>>.
MulAdd10(x, d) ==
    LET c4 == x[4] * 10 + d
        c3 == x[3] * 10 + (c4 \div Limb)
        c2 == x[2] * 10 + (c3 \div Limb)
        c1 == x[1] * 10 + (c2 \div Limb)
    IN  <<(<<c1 % Limb, c2 % Limb, c3 % Limb, c4 % Limb>>), c1 \div Limb # 0>>

\* The magnitude of a digit string: [syntax, range, val].
RECURSIVE Magnitude(_)
Magnitude(s) ==
    IF s = <<>> THEN [syntax |-> FALSE, range |-> FALSE, val |-> I(0)]
    ELSE LET m == Magnitude(SubSeq(s, 1, Len(s) - 1))
             d == CharVal(s[Len(s)])
             n == MulAdd10(m.val, IF d < 0 THEN 0 ELSE d)
         IN  [syntax |-> m.syntax \/ d < 0,
              range  |-> m.range \/ n[2],
              val    |-> n[1]]

\* strconv.Atoi with its error dropped (i, _ := strconv.Atoi(v)): 0 on a
\* syntax error, the nearest bound of int on a range error.
Atoi(s) ==
    LET neg  == s # <<>> /\ s[1] = "-"
        sign == s # <<>> /\ s[1] \in {"-", "+"}
        body == IF sign THEN Tail(s) ELSE s
        m    == Magnitude(body)
    IN  IF body = <<>> \/ m.syntax THEN I(0)
        ELSE IF neg
             THEN IF m.range \/ (IsNeg(m.val) /\ m.val # MinInt64)
                  THEN MinInt64 ELSE Neg(m.val)
             ELSE IF m.range \/ IsNeg(m.val) THEN MaxInt64 ELSE m.val


(***************************************************************************)
(* Values: Go's nil and non-nil slices, *net.IPNet, maps and errors.       *)
(***************************************************************************)
NilSlice == [isNil |-> TRUE, elems |-> <<>>]
Slice(s) == [isNil |-> FALSE, elems |-> s]

NilIPNet == [isNil |-> TRUE, IP |-> "", Bits |-> 0]
IPNet(ip, bits) == [isNil |-> FALSE, IP |-> ip, Bits |-> bits]

EmptyMap == [k \in {} |-> {}]
NilMap == [isNil |-> TRUE, m |-> EmptyMap]
MakeMap == [isNil |-> FALSE, m |-> EmptyMap]
MapLen(c) == Cardinality(DOMAIN c.m)
MapSet(c, k, v) == [isNil |-> FALSE,
                    m |-> [j \in (DOMAIN c.m) \cup {k} |-> IF j = k THEN v ELSE c.m[j]]]

NoErr == [kind |-> "nil", text |-> "", code |-> 0]
errInvalidIP == [kind |-> "errInvalidIP", text |-> "Invalid IP", code |-> 0]
errInvalidASN == [kind |-> "errInvalidASN", text |-> "Invalid AS Number", code |-> 0]
TransportErr == [kind |-> "transport", text |-> "", code |-> 0]
DecodeErr == [kind |-> "decode", text |-> "", code |-> 0]
CIDRErr == [kind |-> "cidr", text |-> "invalid CIDR address", code |-> 0]
OriginErr == [kind |-> "origin", text |-> "Unable to parse origin AS number", code |-> 0]
NotInitErr == [kind |-> "notinit", text |-> "invalids is empty, run GetInvalids() first", code |-> 0]

StatusOK == 200
StatusText(code) ==
    CASE code = 200 -> "OK"
      [] code = 404 -> "Not Found"
      [] OTHER -> ""
StatusErr(code) == [kind |-> "status", text |-> StatusText(code), code |-> code]

(***************************************************************************)
(* The validators of github.com/mellowdrifter/bogons and the parsers of    *)
(* the standard library, on the strings and numbers of this model.         *)
(***************************************************************************)
\* The addresses callers pass.
IPs == {"2600:0::", "10.1.1.1", "nonsense"}

ValidPublicIP(ip) == ip \in {"1.1.1.1", "2600:0::"}

\* net.ParseIP(ip).String(): the canonical text of the address.
ParseIPString(ip) ==
    CASE ip = "1.1.1.1" -> "1.1.1.1"
      [] ip = "2600:0::" -> "2600::"
      [] ip = "10.1.1.1" -> "10.1.1.1"
      [] OTHER -> "<nil>"

\* ValidPublicASN on a uint32: nonzero and outside the reserved blocks
\* (AS_TRANS 23456, 64496-131071, 4200000000-4294967295).
ValidPublicASN(u) ==
    /\ u # <<0, 0>>
    /\ u # U32(23456)
    /\ ~(U32Leq(U32(64496), u) /\ U32Leq(u, U32(131071)))
    /\ ~U32Leq(<<64086, 59904>>, u)

\* The CIDR strings the service sends.
CIDRStrings == {"1.1.1.1/24", "2600::/48", "nonsense", ""}

\* net.ParseCIDR: [ok, net], the network with the host bits masked off.
ParseCIDR(s) ==
    CASE s = "1.1.1.0/24" -> [ok |-> TRUE, net |-> IPNet("1.1.1.0", 24)]
      [] s = "1.1.1.1/24" -> [ok |-> TRUE, net |-> IPNet("1.1.1.0", 24)]
      [] s = "2600::1/48" -> [ok |-> TRUE, net |-> IPNet("2600::", 48)]
      [] s = "2600::/48"  -> [ok |-> TRUE, net |-> IPNet("2600::", 48)]
      [] OTHER -> [ok |-> FALSE, net |-> NilIPNet]

\* The ASNs callers pass (Go ints): 0, 3356, 13335, 64512, 4199999999,
\* 2^32 + 3356 and -1.
AS0 == I(0)
AS3356 == I(3356)
AS13335 == I(13335)
AS64512 == I(64512)
AS4199999999 == <<0, 0, 64086, 59903>>
ASWrapped == <<0, 1, 0, 3356>>
ASMinusOne == <<65535, 65535, 65535, 65535>>
ASNs == {AS0, AS3356, AS13335, AS64512, AS4199999999, ASWrapped, ASMinusOne}
SourcedASNs == {AS0, AS3356, ASWrapped}

\* An int is in the 32-bit ASN space when it is positive and below 2^32.
InASNSpace(x) == x[1] = 0 /\ x[2] = 0 /\ x # I(0)

(***************************************************************************)
(* The response envelope (type data) and what the service may answer.      *)
(***************************************************************************)
ZeroData ==
    [Exists |-> FALSE, Route |-> "", ASPath |-> <<>>, ASSet |-> <<>>,
     Origin |-> I(0), ROA |-> "", ASName |-> "", ASNames |-> <<>>,
     Invalids |-> <<>>,
     Sourced |-> [Ipv4 |-> 0, Ipv6 |-> 0, Prefixes |-> <<>>],
     Totals |-> [Ipv4 |-> 0, Ipv6 |-> 0]]

\* Bounds of the model: the longest AS-path / AS-set array and the longest
\* bulk list (ASNames, Invalids) a response carries.
MaxPath == 2
MaxEntries == 2

SeqsUpTo(S, n) == UNION {[1..k -> S] : k \in 0..n}

\* AS-path strings, as sequences of characters: "13335", "x" and twenty
\* nines, a number no int holds.
Nines == [i \in 1..20 |-> "9"]
PathStrings == {<<"1", "3", "3", "3", "5">>, <<"x">>, Nines}
SetArrays == {<<>>, <<(<<"3", "3", "5", "6">>)>>}

NameEntries ==
    {[ASN |-> U32(3356), ASName |-> "LEVEL3"],
     [ASN |-> U32(3356), ASName |-> "LUMEN"],
     [ASN |-> U32(13335), ASName |-> "CLOUDFLARENET"]}

InvalidEntries ==
    {[ASN |-> AS13335, Prefixes |-> <<"1.1.1.1/24", "2600::/48">>],
     [ASN |-> AS3356, Prefixes |-> <<>>],
     [ASN |-> AS3356, Prefixes |-> <<"2600::/48", "nonsense">>],
     [ASN |-> AS13335, Prefixes |-> <<"nonsense">>]}

SourcedLists ==
    {<<>>, <<"1.1.1.1/24", "2600::/48">>, <<"2600::/48", "nonsense">>,
     <<"nonsense", "1.1.1.1/24">>}

\* The envelopes the service may send, per handler.
RouteData ==
    {[ZeroData EXCEPT !.Exists = e, !.Route = r] : e \in BOOLEAN, r \in CIDRStrings}
OriginData ==
    {[ZeroData EXCEPT !.Exists = e, !.Origin = o] :
       e \in BOOLEAN, o \in {AS0, AS13335, AS3356}}
ASPathData ==
    UNION {{[ZeroData EXCEPT !.Exists = e, !.ASPath = p, !.ASSet = a] :
              e \in BOOLEAN, a \in IF Len(p) = 1 THEN SetArrays ELSE {<<>>}} :
           p \in SeqsUpTo(PathStrings, MaxPath)}
ROAData ==
    {[ZeroData EXCEPT !.Exists = e, !.ROA = r] : e \in BOOLEAN, r \in {"", "VALID"}}
ASNameData ==
    {[ZeroData EXCEPT !.Exists = e, !.ASName = n] : e \in BOOLEAN, n \in {"", "LEVEL3"}}
ASNamesData ==
    {[ZeroData EXCEPT !.ASNames = l] : l \in SeqsUpTo(NameEntries, MaxEntries)}
InvalidsData ==
    {[ZeroData EXCEPT !.Invalids = l] : l \in SeqsUpTo(InvalidEntries, MaxEntries)}
SourcedData ==
    {[ZeroData EXCEPT !.Exists = e,
                      !.Sourced = [Ipv4 |-> Len(l), Ipv6 |-> 0, Prefixes |-> l]] :
       e \in BOOLEAN, l \in SourcedLists}
TotalsData == {[ZeroData EXCEPT !.Totals = [Ipv4 |-> 4, Ipv6 |-> 6]]}

\* What one round trip can end in: no response at all (status 0), a status
\* other than 200, a 200 whose body does not decode, a 200 with an envelope.
Outcomes(data) ==
    {[status |-> s, decodes |-> FALSE, data |-> ZeroData] : s \in {0, 404, StatusOK}}
    \cup {[status |-> StatusOK, decodes |-> TRUE, data |-> d] : d \in data}

RouteOutcomes == Outcomes(RouteData)
OriginOutcomes == Outcomes(OriginData)
ASPathOutcomes == Outcomes(ASPathData)
ROAOutcomes == Outcomes(ROAData)
ASNameOutcomes == Outcomes(ASNameData)
ASNamesOutcomes == Outcomes(ASNamesData)
InvalidsOutcomes == Outcomes(InvalidsData)
SourcedOutcomes == Outcomes(SourcedData)
TotalsOutcomes == Outcomes(TotalsData)

(***************************************************************************)
(* getRequest                                                              *)
(***************************************************************************)
api == "https://test.bgpstuff.net"

\* The path segments of a request: the handler and its argument, if any.
Urls(handler, ip, num) == [handler |-> handler, ip |-> ip, num |-> num]

getURI(urls) == [base |-> api, path |-> urls]

\* The requests client.Do is called with, the status of the response (0 when
\* there is none), whether the body decoded, the response and the error.
getRequestRetrying(urls, o) ==
    LET get == [method |-> "GET", uri |-> getURI(urls)]
    IN  IF o.status = 0
        THEN [sent |-> <<get>>, status |-> o.status, ok |-> FALSE, resp |-> ZeroData,
              err |-> TransportErr]
        ELSE IF o.status # StatusOK
        THEN [sent |-> <<get, get>>, status |-> o.status, ok |-> FALSE, resp |-> ZeroData,
              err |-> StatusErr(o.status)]
        ELSE IF ~o.decodes
        THEN [sent |-> <<get>>, status |-> o.status, ok |-> FALSE, resp |-> o.data,
              err |-> DecodeErr]
        ELSE [sent |-> <<get>>, status |-> o.status, ok |-> TRUE, resp |-> o.data,
              err |-> NoErr]

getRequest(urls, o) ==
    LET get == [method |-> "GET", uri |-> getURI(urls)]
    IN  IF o.status = 0
        THEN [sent |-> <<get>>, status |-> o.status, ok |-> FALSE, resp |-> ZeroData,
              err |-> TransportErr]
        ELSE IF o.status # StatusOK
        THEN [sent |-> <<get>>, status |-> o.status, ok |-> FALSE, resp |-> ZeroData,
              err |-> StatusErr(o.status)]
        ELSE IF ~o.decodes
        THEN [sent |-> <<get>>, status |-> o.status, ok |-> FALSE, resp |-> o.data,
              err |-> DecodeErr]
        ELSE [sent |-> <<get>>, status |-> o.status, ok |-> TRUE, resp |-> o.data,
              err |-> NoErr]

\* A call that returns before getRequest.
NoRequest == [sent |-> <<>>, status |-> 0, ok |-> FALSE, resp |-> ZeroData, err |-> NoErr]

getExistsFromResponseAlways(res) == TRUE
getExistsFromResponse(res) == res.Exists

getOriginFromResponse(res) == res.Origin

MapAtoi(strs) == [i \in 1..Len(strs) |-> Atoi(strs[i])]

getASPathFromResponseSkipping(res) ==
    LET parsed == MapAtoi(res.ASPath)
    IN  [path |-> Slice(SelectSeq(parsed, LAMBDA v : v # I(0))),
         set  |-> Slice(MapAtoi(res.ASSet))]
getASPathFromResponse(res) ==
    [path |-> Slice(MapAtoi(res.ASPath)), set |-> Slice(MapAtoi(res.ASSet))]

(***************************************************************************)
(* The operations.  Each is the set of results a call can return: one      *)
(* result when no request is sent, one per outcome of the round trip       *)
(* otherwise.                                                              *)
(***************************************************************************)
Ret(val, exists, err, r) ==
    [val |-> val, exists |-> exists, err |-> err, sent |-> r.sent,
     status |-> r.status, ok |-> r.ok, resp |-> IF r.ok THEN r.resp ELSE ZeroData]

\* if !bogons.ValidPublicIP(ip)
IPRejectedNever(ip) == FALSE
IPRejected(ip) == ~ValidPublicIP(ip)

\* if !bogons.ValidPublicASN(uint32(asn))
ASNRejected(asn) == ~ValidPublicASN(Uint32(asn))

GetRoute(ip) ==
    IF IPRejected(ip) THEN {Ret(NilIPNet, FALSE, errInvalidIP, NoRequest)}
    ELSE {LET r == getRequest(Urls("route", ParseIPString(ip), <<>>), o)
              exists == getExistsFromResponse(r.resp)
              c == ParseCIDR(r.resp.Route)
          IN  IF r.err # NoErr THEN Ret(NilIPNet, FALSE, r.err, r)
              ELSE IF ~exists THEN Ret(NilIPNet, FALSE, r.err, r)
              ELSE IF ~c.ok THEN Ret(NilIPNet, exists, CIDRErr, r)
              ELSE Ret(c.net, exists, NoErr, r) : o \in RouteOutcomes}

GetOrigin(ip) ==
    IF IPRejected(ip) THEN {Ret(I(0), FALSE, errInvalidIP, NoRequest)}
    ELSE {LET r == getRequest(Urls("origin", ParseIPString(ip), <<>>), o)
              exists == getExistsFromResponse(r.resp)
              origin == getOriginFromResponse(r.resp)
          IN  IF r.err # NoErr THEN Ret(I(0), FALSE, r.err, r)
              ELSE IF ~exists THEN Ret(I(0), FALSE, r.err, r)
              ELSE IF origin = I(0) THEN Ret(I(0), FALSE, OriginErr, r)
              ELSE Ret(origin, exists, NoErr, r) : o \in OriginOutcomes}
\* The error strconv.Atoi returns beside its value ("" for nil).
AtoiErr(s) ==
    LET neg  == s # <<>> /\ s[1] = "-"
        sign == s # <<>> /\ s[1] \in {"-", "+"}
        body == IF sign THEN Tail(s) ELSE s
        m    == Magnitude(body)
    IN  IF body = <<>> \/ m.syntax THEN "invalid syntax"
        ELSE IF m.range \/ (IsNeg(m.val) /\ ~(neg /\ m.val = MinInt64))
             THEN "value out of range"
             ELSE ""

NilPath == [path |-> NilSlice, set |-> NilSlice]

GetASPath(ip) ==
    IF IPRejected(ip) THEN {Ret(NilPath, FALSE, errInvalidIP, NoRequest)}
    ELSE {LET r == getRequest(Urls("aspath", ParseIPString(ip), <<>>), o)
              exists == getExistsFromResponse(r.resp)
          IN  IF r.err # NoErr THEN Ret(NilPath, FALSE, r.err, r)
              ELSE IF ~exists THEN Ret(NilPath, FALSE, r.err, r)
              ELSE Ret(getASPathFromResponse(r.resp), exists, NoErr, r) :
          o \in ASPathOutcomes}

GetROA(ip) ==
    IF IPRejected(ip) THEN {Ret("", FALSE, errInvalidIP, NoRequest)}
    ELSE {LET r == getRequest(Urls("roa", ParseIPString(ip), <<>>), o)
              exists == getExistsFromResponse(r.resp)
          IN  IF r.err # NoErr THEN Ret("", FALSE, r.err, r)
              ELSE IF ~exists THEN Ret("", FALSE, r.err, r)
              ELSE Ret(r.resp.ROA, exists, NoErr, r) : o \in ROAOutcomes}

\* GetASName from resp, err := c.getRequest("asname", fmt.Sprint(asn)) on.
FetchASName(asn) ==
    {LET r == getRequest(Urls("asname", "", Sprint(asn)), o)
         exists == getExistsFromResponse(r.resp)
     IN  IF r.err # NoErr THEN Ret("", FALSE, r.err, r)
         ELSE IF ~exists THEN Ret("", FALSE, r.err, r)
         ELSE Ret(r.resp.ASName, exists, NoErr, r) : o \in ASNameOutcomes}

FetchedASName == [asn \in ASNs |-> FetchASName(asn)]

\* if len(c.ASNames) > 1
UseASNames(names) == MapLen(names) > 1

GetASName(names, asn) ==
    IF ASNRejected(asn) THEN {Ret("", FALSE, errInvalidASN, NoRequest)}
    ELSE IF UseASNames(names)
    THEN IF asn \in DOMAIN names.m
         THEN {Ret(names.m[asn], TRUE, NoErr, NoRequest)}
         ELSE {Ret("", FALSE, NoErr, NoRequest)}
    ELSE FetchedASName[asn]

\* for _, v := range resp.Data.ASNames { c.ASNames[int(v.ASN)] = v.ASName }
RECURSIVE FillASNames(_, _)
FillASNamesKeepingFirst(c, entries) ==
    IF entries = <<>> THEN c
    ELSE LET k == IntOfUint32(Head(entries).ASN)
         IN  FillASNames(IF k \in DOMAIN c.m THEN c ELSE MapSet(c, k, Head(entries).ASName),
                         Tail(entries))
FillASNames(c, entries) ==
    IF entries = <<>> THEN c
    ELSE FillASNames(MapSet(c, IntOfUint32(Head(entries).ASN), Head(entries).ASName),
                     Tail(entries))

\* GetASNames: each result with the cache it leaves.
GetASNames ==
    {LET fresh == MakeMap
         r == getRequest(Urls("asnames", "", <<>>), o)
     IN  IF r.err # NoErr
         THEN [ret |-> Ret(0, FALSE, r.err, r), cache |-> fresh]
         ELSE [ret |-> Ret(0, FALSE, NoErr, r),
               cache |-> FillASNames(fresh, r.resp.ASNames)] : o \in ASNamesOutcomes}

\* The inner loop of GetInvalids and the loop of GetSourced: parse each
\* prefix in order; the first failure ends the call.
ParsePrefixesSkipping(strs) ==
    LET good == SelectSeq(strs, LAMBDA v : ParseCIDR(v).ok)
    IN  [ok |-> TRUE, nets |-> [i \in 1..Len(good) |-> ParseCIDR(good[i]).net]]
ParsePrefixes(strs) ==
    [ok |-> \A i \in 1..Len(strs) : ParseCIDR(strs[i]).ok,
     nets |-> [i \in 1..Len(strs) |-> ParseCIDR(strs[i]).net]]

\* The outer loop of GetInvalids: [cache, err].
RECURSIVE FillInvalids(_, _)
FillInvalids(c, entries) ==
    IF entries = <<>> THEN [cache |-> c, err |-> NoErr]
    ELSE LET p == ParsePrefixes(Head(entries).Prefixes)
         IN  IF ~p.ok THEN [cache |-> c, err |-> CIDRErr]
             ELSE FillInvalids(MapSet(c, Head(entries).ASN, p.nets), Tail(entries))

\* GetInvalids: each result with the cache it leaves.
GetInvalids ==
    {LET fresh == MakeMap
         r == getRequest(Urls("invalids", "", <<>>), o)
         f == FillInvalids(fresh, r.resp.Invalids)
     IN  IF r.err # NoErr
         THEN [ret |-> Ret(0, FALSE, r.err, r), cache |-> fresh]
         ELSE [ret |-> Ret(0, FALSE, f.err, r), cache |-> f.cache] :
     o \in InvalidsOutcomes}

\* val, ok := c.Invalids[asn]
LookupInvalidAny(invalids, asn) ==
    IF invalids.m = EmptyMap THEN [val |-> NilSlice, ok |-> FALSE]
    ELSE LET k == CHOOSE j \in DOMAIN invalids.m : TRUE
         IN  [val |-> Slice(invalids.m[k]), ok |-> TRUE]
LookupInvalid(invalids, asn) ==
    IF asn \in DOMAIN invalids.m
    THEN [val |-> Slice(invalids.m[asn]), ok |-> TRUE]
    ELSE [val |-> NilSlice, ok |-> FALSE]

GetInvalid(invalids, asn) ==
    IF ASNRejected(asn) THEN {Ret(NilSlice, FALSE, errInvalidASN, NoRequest)}
    ELSE IF invalids.isNil THEN {Ret(NilSlice, FALSE, NotInitErr, NoRequest)}
    ELSE LET l == LookupInvalid(invalids, asn)
         IN  {Ret(l.val, l.ok, NoErr, NoRequest)}

NoSourced == [prefixes |-> NilSlice, ipv4 |-> 0, ipv6 |-> 0]

GetSourced(asn) ==
    IF ASNRejected(asn) THEN {Ret(NoSourced, FALSE, errInvalidASN, NoRequest)}
    ELSE {LET r == getRequest(Urls("sourced", "", Sprint(asn)), o)
              p == ParsePrefixes(r.resp.Sourced.Prefixes)
          IN  IF r.err # NoErr THEN Ret(NoSourced, FALSE, r.err, r)
              ELSE IF ~p.ok THEN Ret(NoSourced, FALSE, CIDRErr, r)
              ELSE Ret([prefixes |-> Slice(p.nets), ipv4 |-> r.resp.Sourced.Ipv4,
                        ipv6 |-> r.resp.Sourced.Ipv6], FALSE, NoErr, r) :
          o \in SourcedOutcomes}

GetTotals ==
    {LET r == getRequest(Urls("totals", "", <<>>), o)
     IN  IF r.err # NoErr THEN Ret([ipv4 |-> 0, ipv6 |-> 0], FALSE, r.err, r)
         ELSE Ret([ipv4 |-> r.resp.Totals.Ipv4, ipv6 |-> r.resp.Totals.Ipv6],
                  FALSE, NoErr, r) : o \in TotalsOutcomes}

(***************************************************************************)
(* The state machine: a Client and the calls made on it, one at a time.    *)
(***************************************************************************)
VARIABLES
    ASNames,       \* Client.ASNames
    Invalids,      \* Client.Invalids
    last,          \* the last completed call: operation, arguments, results,
                   \* requests sent, envelope received, the caches before it
    lastOrigin,    \* the last origin GetOrigin returned with exists = true
                   \* (SpecOrigin only)
    invalidsHist,  \* "never": GetInvalids not called yet; "failed": called,
                   \* never returned nil; "loaded": the latest call returned
                   \* nil; "stale": one returned nil, the latest did not
    minuteSent,    \* requests sent in the current minute (SpecRate only)
    inflight       \* the bulk load a second goroutine is in the middle of
                   \* (SpecRace only)

vars == <<ASNames, Invalids, last, lastOrigin, invalidsHist, minuteSent, inflight>>

NoIP == ""
NoASN == I(0)

Completed(op, ip, asn, ret) ==
    last' = [op |-> op, ip |-> ip, asn |-> asn, val |-> ret.val,
             exists |-> ret.exists, err |-> ret.err, sent |-> ret.sent,
             status |-> ret.status, ok |-> ret.ok, resp |-> ret.resp,
             pre |-> [ASNames |-> ASNames, Invalids |-> Invalids]]

\* No bulk load in flight.
Idle == [op |-> "none", pc |-> "idle", old |-> NilMap, r |-> NoRequest,
         rest |-> <<>>, observed |-> FALSE]

\* NewBGPClient: &Client{}
Init ==
    /\ ASNames = NilMap
    /\ Invalids = NilMap
    /\ last = [op |-> "NewBGPClient", ip |-> NoIP, asn |-> NoASN, val |-> 0,
               exists |-> FALSE, err |-> NoErr, sent |-> <<>>, status |-> 0,
               ok |-> FALSE, resp |-> ZeroData,
               pre |-> [ASNames |-> NilMap, Invalids |-> NilMap]]
    /\ lastOrigin = [ip |-> NoIP, val |-> I(0)]
    /\ invalidsHist = "never"
    /\ minuteSent = 0
    /\ inflight = Idle

\* The results of the operations that read no state, computed once.
RouteResults == [ip \in IPs |-> GetRoute(ip)]
OriginResults == [ip \in IPs |-> GetOrigin(ip)]
ASPathResults == [ip \in IPs |-> GetASPath(ip)]
ROAResults == [ip \in IPs |-> GetROA(ip)]
SourcedResults == [asn \in SourcedASNs |-> GetSourced(asn)]

CallGetRoute ==
    /\ \E ip \in IPs : \E ret \in RouteResults[ip] :
         Completed("GetRoute", ip, NoASN, ret)
    /\ UNCHANGED <<ASNames, Invalids, invalidsHist>>

CallGetOrigin ==
    /\ \E ip \in IPs : \E ret \in OriginResults[ip] :
         Completed("GetOrigin", ip, NoASN, ret)
    /\ UNCHANGED <<ASNames, Invalids, invalidsHist>>

CallGetASPath ==
    /\ \E ip \in IPs : \E ret \in ASPathResults[ip] :
         Completed("GetASPath", ip, NoASN, ret)
    /\ UNCHANGED <<ASNames, Invalids, invalidsHist>>

CallGetROA ==
    /\ \E ip \in IPs : \E ret \in ROAResults[ip] :
         Completed("GetROA", ip, NoASN, ret)
    /\ UNCHANGED <<ASNames, Invalids, invalidsHist>>

CallGetASNameCaching ==
    /\ \E asn \in ASNs : \E ret \in GetASName(ASNames, asn) :
         /\ Completed("GetASName", NoIP, asn, ret)
         /\ ASNames' = IF ret.sent # <<>> /\ ret.exists
                       THEN MapSet(IF ASNames.isNil THEN MakeMap ELSE ASNames,
                                   asn, ret.val)
                       ELSE ASNames
    /\ UNCHANGED <<Invalids, invalidsHist>>
CallGetASName ==
    /\ \E asn \in ASNs : \E ret \in GetASName(ASNames, asn) :
         Completed("GetASName", NoIP, asn, ret)
    /\ UNCHANGED <<ASNames, Invalids, invalidsHist>>

CallGetASNames ==
    /\ \E g \in GetASNames :
         /\ Completed("GetASNames", NoIP, NoASN, g.ret)
         /\ ASNames' = g.cache
    /\ UNCHANGED <<Invalids, invalidsHist>>

CallGetInvalids ==
    /\ \E g \in GetInvalids :
         /\ Completed("GetInvalids", NoIP, NoASN, g.ret)
         /\ Invalids' = g.cache
         /\ invalidsHist' =
              IF g.ret.err = NoErr THEN "loaded"
              ELSE IF invalidsHist \in {"loaded", "stale"} THEN "stale"
              ELSE "failed"
    /\ UNCHANGED ASNames

CallGetInvalid ==
    /\ \E asn \in ASNs : \E ret \in GetInvalid(Invalids, asn) :
         Completed("GetInvalid", NoIP, asn, ret)
    /\ UNCHANGED <<ASNames, Invalids, invalidsHist>>

CallGetSourced ==
    /\ \E asn \in SourcedASNs : \E ret \in SourcedResults[asn] :
         Completed("GetSourced", NoIP, asn, ret)
    /\ UNCHANGED <<ASNames, Invalids, invalidsHist>>

CallGetTotals ==
    /\ \E ret \in GetTotals : Completed("GetTotals", NoIP, NoASN, ret)
    /\ UNCHANGED <<ASNames, Invalids, invalidsHist>>

\* Spec keeps neither observation of the service's side.
Unobserved == UNCHANGED <<lastOrigin, minuteSent, inflight>>

Next ==
    \/ CallGetRoute /\ Unobserved
    \/ CallGetOrigin /\ Unobserved
    \/ CallGetASPath /\ Unobserved
    \/ CallGetROA /\ Unobserved
    \/ CallGetASName /\ Unobserved
    \/ CallGetASNames /\ Unobserved
    \/ CallGetInvalids /\ Unobserved
    \/ CallGetInvalid /\ Unobserved
    \/ CallGetSourced /\ Unobserved
    \/ CallGetTotals /\ Unobserved

Spec == Init /\ [][Next]_vars

(***************************************************************************)
(* SpecOrigin: the address lookups, remembering what GetOrigin returned.   *)
(***************************************************************************)
ObserveOrigin ==
    /\ lastOrigin' = IF last'.exists /\ last'.err = NoErr
                     THEN [ip |-> last'.ip, val |-> last'.val]
                     ELSE lastOrigin
    /\ UNCHANGED <<minuteSent, inflight>>

NextOrigin ==
    \/ CallGetOrigin /\ ObserveOrigin
    \/ CallGetASPath /\ Unobserved
    \/ CallGetRoute /\ Unobserved
    \/ CallGetROA /\ Unobserved

SpecOrigin == Init /\ [][NextOrigin]_vars

(***************************************************************************)
(* SpecRate: calls against the clock.  minuteSent counts the requests sent *)
(* since the current minute began; it is observed up to one request past   *)
(* the quota the service asks clients to keep to.                          *)
(***************************************************************************)
Quota == 30

Timed ==
    /\ minuteSent <= Quota
    /\ minuteSent' = minuteSent + Len(last'.sent)
    /\ UNCHANGED <<lastOrigin, inflight>>

MinuteElapses ==
    /\ minuteSent > 0
    /\ minuteSent' = 0
    /\ UNCHANGED <<ASNames, Invalids, last, lastOrigin, invalidsHist, inflight>>

NextRate ==
    \/ CallGetTotals /\ Timed
    \/ CallGetRoute /\ Timed
    \/ CallGetInvalid /\ Timed
    \/ MinuteElapses

SpecRate == Init /\ [][NextRate]_vars

(***************************************************************************)
(* SpecRace: one goroutine runs bulk loads statement by statement while a  *)
(* second one calls GetInvalid and GetASName on the same Client.  Nothing  *)
(* orders the two: a read of c.Invalids or c.ASNames made while a load is  *)
(* in flight may still see the map the field held before the load's first *)
(* statement, and a lookup that meets a store in progress may end the      *)
(* process ("fatal error: concurrent map read and map write").             *)
(***************************************************************************)
FatalErr == [kind |-> "fatal", text |-> "concurrent map read and map write", code |-> 0]

RaceASNs == {AS3356}

Running == inflight.pc # "crashed"

NoObserver == UNCHANGED <<lastOrigin, minuteSent>>

HistAfter(err) ==
    IF err = NoErr THEN "loaded"
    ELSE IF invalidsHist \in {"loaded", "stale"} THEN "stale"
    ELSE "failed"

\* c.Invalids = make(map[int][]*net.IPNet); r is the round trip the call is
\* about to make.
BeginGetInvalids ==
    /\ inflight.op = "none"
    /\ \E o \in InvalidsOutcomes :
         inflight' = [op |-> "GetInvalids", pc |-> "request", old |-> Invalids,
                      r |-> getRequest(Urls("invalids", "", <<>>), o),
                      rest |-> <<>>, observed |-> FALSE]
    /\ Invalids' = MakeMap
    /\ UNCHANGED <<ASNames, last, invalidsHist>>
    /\ NoObserver

\* resp, err := c.getRequest("invalids"); if err != nil { return err }
RequestGetInvalids ==
    /\ inflight.op = "GetInvalids" /\ inflight.pc = "request"
    /\ IF inflight.r.err # NoErr
       THEN /\ Completed("GetInvalids", NoIP, NoASN,
                         Ret(0, FALSE, inflight.r.err, inflight.r))
            /\ invalidsHist' = HistAfter(inflight.r.err)
            /\ inflight' = Idle
       ELSE /\ inflight' = [inflight EXCEPT !.pc = "store",
                                            !.rest = inflight.r.resp.Invalids]
            /\ UNCHANGED <<last, invalidsHist>>
    /\ UNCHANGED <<ASNames, Invalids>>
    /\ NoObserver

\* One turn of the outer loop of GetInvalids, or its return nil.
StoreGetInvalids ==
    /\ inflight.op = "GetInvalids" /\ inflight.pc = "store"
    /\ IF inflight.rest = <<>>
       THEN /\ Completed("GetInvalids", NoIP, NoASN, Ret(0, FALSE, NoErr, inflight.r))
            /\ invalidsHist' = HistAfter(NoErr)
            /\ inflight' = Idle
            /\ UNCHANGED Invalids
       ELSE LET v == Head(inflight.rest)
                p == ParsePrefixes(v.Prefixes)
            IN  IF ~p.ok
                THEN /\ Completed("GetInvalids", NoIP, NoASN,
                                  Ret(0, FALSE, CIDRErr, inflight.r))
                     /\ invalidsHist' = HistAfter(CIDRErr)
                     /\ inflight' = Idle
                     /\ UNCHANGED Invalids
                ELSE /\ Invalids' = MapSet(Invalids, v.ASN, p.nets)
                     /\ inflight' = [inflight EXCEPT !.rest = Tail(inflight.rest)]
                     /\ UNCHANGED <<last, invalidsHist>>
    /\ UNCHANGED ASNames
    /\ NoObserver

\* c.ASNames = make(map[int]string)
BeginGetASNames ==
    /\ inflight.op = "none"
    /\ \E o \in ASNamesOutcomes :
         inflight' = [op |-> "GetASNames", pc |-> "request", old |-> ASNames,
                      r |-> getRequest(Urls("asnames", "", <<>>), o),
                      rest |-> <<>>, observed |-> FALSE]
    /\ ASNames' = MakeMap
    /\ UNCHANGED <<Invalids, last, invalidsHist>>
    /\ NoObserver

\* resp, err := c.getRequest("asnames"); if err != nil { return err }
RequestGetASNames ==
    /\ inflight.op = "GetASNames" /\ inflight.pc = "request"
    /\ IF inflight.r.err # NoErr
       THEN /\ Completed("GetASNames", NoIP, NoASN,
                         Ret(0, FALSE, inflight.r.err, inflight.r))
            /\ inflight' = Idle
       ELSE /\ inflight' = [inflight EXCEPT !.pc = "store",
                                            !.rest = inflight.r.resp.ASNames]
            /\ UNCHANGED last
    /\ UNCHANGED <<ASNames, Invalids, invalidsHist>>
    /\ NoObserver

\* One turn of the loop of GetASNames, or its return nil.
StoreGetASNames ==
    /\ inflight.op = "GetASNames" /\ inflight.pc = "store"
    /\ IF inflight.rest = <<>>
       THEN /\ Completed("GetASNames", NoIP, NoASN, Ret(0, FALSE, NoErr, inflight.r))
            /\ inflight' = Idle
            /\ UNCHANGED ASNames
       ELSE LET v == Head(inflight.rest)
            IN  /\ ASNames' = MapSet(ASNames, IntOfUint32(v.ASN), v.ASName)
                /\ inflight' = [inflight EXCEPT !.rest = Tail(inflight.rest)]
                /\ UNCHANGED last
    /\ UNCHANGED <<Invalids, invalidsHist>>
    /\ NoObserver

\* The maps a racing read of the field may find, and whether a store into
\* the current one may be in progress.
Visible(op, field) == {field} \cup (IF inflight.op = op THEN {inflight.old} ELSE {})
Storing(op) == inflight.op = op /\ inflight.pc = "store" /\ inflight.rest # <<>>

Observed(op) == inflight' = [inflight EXCEPT !.observed = (inflight.op = op)]

Crash(op, asn) ==
    /\ last' = [last EXCEPT !.op = op, !.ip = NoIP, !.asn = asn,
                            !.val = 0, !.exists = FALSE,
                            !.err = FatalErr, !.sent = <<>>, !.status = 0,
                            !.ok = FALSE, !.resp = ZeroData,
                            !.pre = [ASNames |-> ASNames, Invalids |-> Invalids]]
    /\ inflight' = [inflight EXCEPT !.pc = "crashed", !.observed = TRUE]

\* GetInvalid called by the second goroutine.
RaceGetInvalid ==
    /\ Running
    /\ \E asn \in RaceASNs :
         \/ \E m \in Visible("GetInvalids", Invalids) : \E ret \in GetInvalid(m, asn) :
              Completed("GetInvalid", NoIP, asn, ret) /\ Observed("GetInvalids")
         \/ Storing("GetInvalids") /\ Crash("GetInvalid", asn)
    /\ UNCHANGED <<ASNames, Invalids, invalidsHist>>
    /\ NoObserver

\* GetASName called by the second goroutine.
RaceGetASName ==
    /\ Running
    /\ \E asn \in RaceASNs :
         \/ \E m \in Visible("GetASNames", ASNames) : \E ret \in GetASName(m, asn) :
              Completed("GetASName", NoIP, asn, ret) /\ Observed("GetASNames")
         \/ Storing("GetASNames") /\ Crash("GetASName", asn)
    /\ UNCHANGED <<ASNames, Invalids, invalidsHist>>
    /\ NoObserver

NextRace ==
    \/ Running /\ BeginGetInvalids
    \/ Running /\ RequestGetInvalids
    \/ Running /\ StoreGetInvalids
    \/ Running /\ BeginGetASNames
    \/ Running /\ RequestGetASNames
    \/ Running /\ StoreGetASNames
    \/ RaceGetInvalid
    \/ RaceGetASName

SpecRace == Init /\ [][NextRace]_vars

(***************************************************************************)
(* Properties.                                                             *)
(***************************************************************************)
IPOps == {"GetRoute", "GetOrigin", "GetASPath", "GetROA"}
ASNOps == {"GetASName", "GetInvalid", "GetSourced"}

\* What an operation returns besides its error when it has no result.
ZeroVal(op) ==
    CASE op = "GetRoute" -> NilIPNet
      [] op = "GetOrigin" -> I(0)
      [] op = "GetASPath" -> NilPath
      [] op = "GetROA" -> ""
      [] op = "GetASName" -> ""
      [] op = "GetInvalid" -> NilSlice
      [] op = "GetSourced" -> NoSourced
      [] op = "GetTotals" -> [ipv4 |-> 0, ipv6 |-> 0]
      [] OTHER -> 0

NoResult == last.val = ZeroVal(last.op) /\ ~last.exists

\* C1: a call whose argument the IP validator (GetRoute, GetOrigin,
\* GetASPath, GetROA) or the ASN validator (GetASName, GetInvalid,
\* GetSourced) rejects returns the validation error with a zero result and
\* exists = false, and sends no request, whatever the caches hold.
C1_RejectedInputSendsNothing ==
    /\ (last.op \in IPOps /\ ~ValidPublicIP(last.ip)) =>
         (last.err = errInvalidIP /\ NoResult /\ last.sent = <<>>)
    /\ (last.op \in ASNOps /\ ~ValidPublicASN(Uint32(last.asn))) =>
         (last.err = errInvalidASN /\ NoResult /\ last.sent = <<>>)

\* C1's case: a rejected ASN on a client whose caches are both loaded, and a
\* rejected address.
C1_RejectedWithLoadedCaches ==
    /\ last.op = "GetASName"
    /\ last.asn = AS64512
    /\ MapLen(ASNames) = 2
    /\ MapLen(Invalids) > 0
    /\ last.err = errInvalidASN

\* C2: for a valid ASN, GetInvalid sends no request; before any GetInvalids
\* call it returns the "run GetInvalids() first" error; once a GetInvalids
\* has returned nil it returns a nil error with exactly the prefix list the
\* cache stores for the ASN, and exists = true iff the ASN is a key.
C2_GetInvalidReadsLoadedCache ==
    (last.op = "GetInvalid" /\ ValidPublicASN(Uint32(last.asn))) =>
      /\ last.sent = <<>>
      /\ invalidsHist = "never" => (last.err = NotInitErr /\ NoResult)
      /\ invalidsHist \in {"loaded", "stale"} =>
           /\ last.err = NoErr
           /\ last.exists = (last.asn \in DOMAIN Invalids.m)
           /\ last.val = IF last.asn \in DOMAIN Invalids.m
                         THEN Slice(Invalids.m[last.asn]) ELSE NilSlice

\* C2's case: GetInvalid(13335) right after a load that stored two prefixes.
C2_LoadedLookup ==
    /\ last.op = "GetInvalid"
    /\ last.asn = AS13335
    /\ invalidsHist = "loaded"
    /\ last.exists
    /\ Len(last.val.elems) = 2

\* C3 (as claimed): whenever the AS-name cache holds at least one entry,
\* GetASName on a valid ASN sends no request and answers from the cache:
\* (name, true, nil) for a key, ("", false, nil) otherwise.
C3_NonEmptyCacheAnswers ==
    (last.op = "GetASName" /\ ValidPublicASN(Uint32(last.asn)) /\ MapLen(ASNames) >= 1) =>
      /\ last.sent = <<>>
      /\ last.err = NoErr
      /\ last.exists = (last.asn \in DOMAIN ASNames.m)
      /\ last.val = IF last.asn \in DOMAIN ASNames.m THEN ASNames.m[last.asn] ELSE ""

\* C4 (as claimed): no more than the quota of requests is sent within one
\* minute.
C4_QuotaPerMinute == minuteSent <= Quota

\* The handler a request went to.
SentHandlers == [i \in 1..Len(last.sent) |-> last.sent[i].uri.path.handler]

HandlerOf(op) ==
    CASE op = "GetRoute" -> "route"
      [] op = "GetOrigin" -> "origin"
      [] op = "GetASPath" -> "aspath"
      [] op = "GetROA" -> "roa"
      [] op = "GetASName" -> "asname"
      [] op = "GetASNames" -> "asnames"
      [] op = "GetInvalids" -> "invalids"
      [] op = "GetSourced" -> "sourced"
      [] op = "GetTotals" -> "totals"
      [] OTHER -> ""

\* The call passed validation and no reference cache could answer it.
MustFetch ==
    \/ last.op \in IPOps /\ ValidPublicIP(last.ip)
    \/ last.op = "GetSourced" /\ ValidPublicASN(Uint32(last.asn))
    \/ last.op = "GetASName" /\ ValidPublicASN(Uint32(last.asn))
         /\ MapLen(last.pre.ASNames) = 0
    \/ last.op \in {"GetASNames", "GetInvalids", "GetTotals"}

\* C5: a call that passes validation and is not answered from a cache sends
\* exactly one GET, to its own handler, whatever the round trip ends in; no
\* call sends more than one; a status other than 200 makes the call return
\* the error carrying the status text and code, and no result.
C5_ExactlyOneGet ==
    /\ Len(last.sent) <= 1
    /\ MustFetch => Len(last.sent) = 1
    /\ \A i \in 1..Len(last.sent) :
         last.sent[i].method = "GET" /\ SentHandlers[i] = HandlerOf(last.op)
    /\ (last.sent # <<>> /\ last.status \notin {0, StatusOK}) =>
         /\ last.err = [kind |-> "status", text |-> StatusText(last.status),
                        code |-> last.status]
         /\ NoResult

\* C5's case: a lookup answered with 404.
C5_NotFoundStatus ==
    /\ last.op = "GetOrigin"
    /\ last.status = 404
    /\ last.err.text = "Not Found"
    /\ Len(last.sent) = 1

\* C6: when the request of GetRoute, GetOrigin, GetASPath, GetROA or of the
\* network path of GetASName succeeds and the envelope has Exists = false,
\* the call returns the zero result, exists = false and a nil error,
\* whatever the envelope's other fields hold.
C6_NotFoundIsZeroResult ==
    (last.op \in IPOps \cup {"GetASName"} /\ last.ok /\ ~last.resp.Exists) =>
      (NoResult /\ last.err = NoErr)

\* C6's case: Exists = false with an unparsable route string.
C6_NotFoundWithBadRoute ==
    /\ last.op = "GetRoute"
    /\ last.ok
    /\ ~last.resp.Exists
    /\ last.resp.Route = "nonsense"

ReturnedPath == last.val.path.elems

\* C7 (as claimed): whenever GetASPath returns exists = true and a nil
\* error, the path has at least two entries and its last entry is the origin
\* GetOrigin returned for the same address.
C7_PathEndsAtOrigin ==
    (last.op = "GetASPath" /\ last.exists /\ last.err = NoErr) =>
      /\ Len(ReturnedPath) >= 2
      /\ lastOrigin.ip = last.ip => ReturnedPath[Len(ReturnedPath)] = lastOrigin.val

\* The service's AS-path array has at least two strings and ends in the
\* decimal text of the origin GetOrigin returned for the same address.
ServicePathEndsAtOrigin ==
    /\ Len(last.resp.ASPath) >= 2
    /\ lastOrigin.ip = last.ip
    /\ last.resp.ASPath[Len(last.resp.ASPath)] = Sprint(lastOrigin.val)

\* C7 (amended): whenever GetASPath returns exists = true and a nil error,
\* the path has as many entries as the AS-path array of the response; it
\* has at least two entries and ends in the origin GetOrigin returned for
\* the same address when the array has at least two strings and ends in
\* that origin's decimal text.
C7_PathFollowsService ==
    (last.op = "GetASPath" /\ last.exists /\ last.err = NoErr) =>
      /\ Len(ReturnedPath) = Len(last.resp.ASPath)
      /\ ServicePathEndsAtOrigin =>
           /\ Len(ReturnedPath) >= 2
           /\ ReturnedPath[Len(ReturnedPath)] = lastOrigin.val

\* C7's case: a path of two strings, the first not a number, ending in the
\* origin GetOrigin returned.
C7_ConsistentService ==
    /\ last.op = "GetASPath"
    /\ last.exists
    /\ last.err = NoErr
    /\ ServicePathEndsAtOrigin
    /\ last.resp.ASPath[1] = <<"x">>

\* The last entry of a bulk list for each key decides what the key maps to.
LastFor(entries, i, key(_)) ==
    \A j \in (i + 1)..Len(entries) : key(entries[j]) # key(entries[i])

NameKey(e) == IntOfUint32(e.ASN)
InvalidKey(e) == e.ASN

\* C8: a GetASNames (GetInvalids) call that returns nil has sent exactly one
\* request, to asnames (invalids), and leaves the cache equal to the mapping
\* of that response: its keys are exactly the response's ASNs, each mapped
\* to its name (its prefixes, parsed, in response order), the last entry
\* deciding for an ASN listed twice.
C8_LoadReplacesCache ==
    /\ (last.op = "GetASNames" /\ last.err = NoErr) =>
         LET es == last.resp.ASNames
         IN  /\ SentHandlers = <<"asnames">>
             /\ ~ASNames.isNil
             /\ DOMAIN ASNames.m = {NameKey(es[i]) : i \in 1..Len(es)}
             /\ \A i \in 1..Len(es) :
                  LastFor(es, i, NameKey) => ASNames.m[NameKey(es[i])] = es[i].ASName
    /\ (last.op = "GetInvalids" /\ last.err = NoErr) =>
         LET es == last.resp.Invalids
         IN  /\ SentHandlers = <<"invalids">>
             /\ ~Invalids.isNil
             /\ DOMAIN Invalids.m = {InvalidKey(es[i]) : i \in 1..Len(es)}
             /\ \A i \in 1..Len(es) :
                  LastFor(es, i, InvalidKey) =>
                    /\ Len(Invalids.m[es[i].ASN]) = Len(es[i].Prefixes)
                    /\ \A k \in 1..Len(es[i].Prefixes) :
                         LET c == ParseCIDR(es[i].Prefixes[k])
                         IN  c.ok /\ Invalids.m[es[i].ASN][k] = c.net

\* C8's case: a reload whose response lacks a key of the earlier load and
\* names the other one twice.
C8_ReloadDropsOldKey ==
    /\ last.op = "GetASNames"
    /\ last.err = NoErr
    /\ AS13335 \in DOMAIN last.pre.ASNames.m
    /\ Len(last.resp.ASNames) = 2
    /\ DOMAIN ASNames.m = {AS3356}

\* C9 (as claimed): GetASName, GetInvalid and GetSourced return the
\* invalid-ASN error and send no request for every asn that is zero,
\* negative or at least 2^32.
C9_OnlyASNSpaceAccepted ==
    (last.op \in ASNOps /\ ~InASNSpace(last.asn)) =>
      (last.err = errInvalidASN /\ last.sent = <<>>)

\* C10 (as claimed): a GetASNames or GetInvalids call that returns an error
\* leaves the entries of its cache as they were before the call.
C10_FailedLoadKeepsCache ==
    /\ (last.op = "GetASNames" /\ last.err # NoErr) => ASNames.m = last.pre.ASNames.m
    /\ (last.op = "GetInvalids" /\ last.err # NoErr) => Invalids.m = last.pre.Invalids.m

\* C11 (as claimed): while no GetInvalids call has returned nil (none was
\* made, or every one made returned an error), GetInvalid on a valid ASN
\* returns the "run GetInvalids() first" error with no result.
C11_UnloadedCacheIsNotInitialized ==
    (last.op = "GetInvalid" /\ ValidPublicASN(Uint32(last.asn))
       /\ invalidsHist \in {"never", "failed"}) =>
      (last.err = NotInitErr /\ NoResult)

\* C12: GetRoute, GetOrigin, GetASPath, GetROA, GetASName, GetInvalid,
\* GetSourced and GetTotals return with both caches as they found them,
\* whatever their outcome; GetASNames returns with the invalids cache as it
\* found it and GetInvalids with the AS-name cache as it found it.
BulkOps == {"GetASNames", "GetInvalids"}
C12_OnlyBulkLoadsWrite ==
    /\ last.op \notin BulkOps \cup {"NewBGPClient"} =>
         (ASNames = last.pre.ASNames /\ Invalids = last.pre.Invalids)
    /\ last.op = "GetASNames" => Invalids = last.pre.Invalids
    /\ last.op = "GetInvalids" => ASNames = last.pre.ASNames

\* C12's case: a GetASName that went to the network (one cached name is not
\* enough for the cache to be used) and got a name back, with the invalids
\* cache loaded: the name is not added to the cache.
C12_FetchedNameNotCached ==
    /\ last.op = "GetASName"
    /\ last.asn = AS13335
    /\ last.sent # <<>>
    /\ last.exists
    /\ MapLen(ASNames) = 1
    /\ AS13335 \notin DOMAIN ASNames.m
    /\ MapLen(Invalids) > 0

\* C13: a CIDR string that does not parse, in the fields the operation
\* reads, makes the call return a non-nil error and no prefixes: GetRoute on
\* Exists = true with such a route string, GetSourced with such an entry at
\* any position of the sourced list, GetInvalids with such a prefix under
\* any ASN.
BadCIDR(strs) == \E i \in 1..Len(strs) : ~ParseCIDR(strs[i]).ok
C13_MalformedCIDRFailsCall ==
    /\ (last.op = "GetRoute" /\ last.ok /\ last.resp.Exists
          /\ ~ParseCIDR(last.resp.Route).ok) =>
         (last.err # NoErr /\ last.val = NilIPNet)
    /\ (last.op = "GetSourced" /\ last.ok /\ BadCIDR(last.resp.Sourced.Prefixes)) =>
         (last.err # NoErr /\ last.val = NoSourced)
    /\ (last.op = "GetInvalids" /\ last.ok
          /\ \E i \in 1..Len(last.resp.Invalids) :
                BadCIDR(last.resp.Invalids[i].Prefixes)) =>
         last.err # NoErr

\* C13's case: GetInvalids on a list whose first ASN parses and whose second
\* ASN has a good prefix followed by a malformed one.
C13_BadPrefixAfterGoodOnes ==
    /\ last.op = "GetInvalids"
    /\ last.ok
    /\ Len(last.resp.Invalids) = 2
    /\ ~BadCIDR(last.resp.Invalids[1].Prefixes)
    /\ last.resp.Invalids[2].Prefixes = <<"2600::/48", "nonsense">>
    /\ last.err = CIDRErr

\* C14 (as claimed): on an envelope with Exists = true GetASPath returns a
\* nil error, a path as long as the envelope's AS-path array and a non-nil
\* set as long as its AS-set array, where entry i is the integer value of
\* string i when strconv.Atoi parses it and 0 when it does not.
ClaimedEntries(strs) ==
    [i \in 1..Len(strs) |-> IF AtoiErr(strs[i]) = "" THEN Atoi(strs[i]) ELSE I(0)]
C14_UnparsableEntryIsZero ==
    (last.op = "GetASPath" /\ last.ok /\ last.resp.Exists) =>
      /\ last.err = NoErr
      /\ last.exists
      /\ last.val.path = Slice(ClaimedEntries(last.resp.ASPath))
      /\ last.val.set = Slice(ClaimedEntries(last.resp.ASSet))

\* C15 (as claimed): when the request succeeds and the envelope has
\* Exists = false, GetSourced returns a nil error, no prefixes and zero IPv4
\* and IPv6 counts, whatever the envelope's sourced prefix list holds.
C15_SourcedGatedByExists ==
    (last.op = "GetSourced" /\ last.ok /\ ~last.resp.Exists) =>
      /\ last.err = NoErr
      /\ last.val.prefixes.elems = <<>>
      /\ last.val.ipv4 = 0
      /\ last.val.ipv6 = 0

\* C16 (as claimed): for GetRoute, GetOrigin, GetASPath, GetROA, GetASName
\* and GetInvalid, a non-nil error comes with exists = false and the zero
\* value.
C16_ErrorExcludesExists ==
    (last.op \in {"GetRoute", "GetOrigin", "GetASPath", "GetROA", "GetASName",
                  "GetInvalid"} /\ last.err # NoErr) =>
      NoResult

\* C17 (as claimed): a lookup made while a bulk load of an already loaded
\* cache is in flight answers from the dataset the cache held before the
\* load or from the one the load is bringing.  For an ASN that is a key of
\* both, GetInvalid returns exists = true, a nil error and one of the two
\* prefix lists; GetASName (both datasets holding more than one name) sends
\* no request and returns one of the two names.
NewInvalids == FillInvalids(MakeMap, inflight.r.resp.Invalids)
NewASNames == FillASNames(MakeMap, inflight.r.resp.ASNames)
C17_RacingLookupSeesOldOrNew ==
    /\ (/\ last.op = "GetInvalid" /\ inflight.op = "GetInvalids" /\ inflight.observed
        /\ last.asn \in DOMAIN inflight.old.m
        /\ inflight.r.err = NoErr /\ NewInvalids.err = NoErr
        /\ last.asn \in DOMAIN NewInvalids.cache.m) =>
         /\ last.err = NoErr
         /\ last.exists
         /\ last.val \in {Slice(inflight.old.m[last.asn]),
                           Slice(NewInvalids.cache.m[last.asn])}
    /\ (/\ last.op = "GetASName" /\ inflight.op = "GetASNames" /\ inflight.observed
        /\ last.asn \in DOMAIN inflight.old.m /\ MapLen(inflight.old) > 1
        /\ inflight.r.err = NoErr
        /\ last.asn \in DOMAIN NewASNames.m /\ MapLen(NewASNames) > 1) =>
         /\ last.sent = <<>>
         /\ last.err = NoErr
         /\ last.exists
         /\ last.val \in {inflight.old.m[last.asn], NewASNames.m[last.asn]}
====
